---- MODULE Spec2Model ----
(***************************************************************************)
(* Model of extractor.py: the CSV-from-model-response pipeline             *)
(* (parse_csv, choose_headers, run_extraction, save_and_copy) and the      *)
(* Extract button handler that starts one worker thread per click.         *)
(*                                                                         *)
(* A text is a sequence of one-character strings.  A row is a sequence of  *)
(* cells, a cell is a text, a table is a sequence of rows.                 *)
(***************************************************************************)
EXTENDS Integers, Sequences, FiniteSets, TLC

VARIABLES
    response,       \* per request: resp.choices[0].message.content
    clicks,         \* Extract clicks still to come
    pc,             \* per request: position of its worker thread
    csv_raw,        \* run_extraction local
    lines,          \* parse_csv local (the normalized lines)
    quoteOpen,      \* csv.reader ran out of lines inside a quoted field
    rows,           \* run_extraction local
    headers,        \* argument of choose_headers
    preview_rows,   \* argument of choose_headers
    calls,          \* per request: number of choose_headers invocations
    selected,       \* run_extraction local
    idx,            \* run_extraction local (0-based column indices)
    filtered,       \* run_extraction local
    reason,         \* per request: str(e) of the exception caught
    wrote,          \* per request: this run wrote results.csv
    inserted,       \* per request: rows this run put into app.table
    table_rows,     \* app.table children
    table_columns,  \* app.table columns
    status_var,     \* app.status_var
    progress,       \* app.progress is shown and running
    results_csv,    \* contents of results.csv
    dialog          \* title of the last messagebox.showerror

vars == <<response, clicks, pc, csv_raw, lines, quoteOpen, rows, headers,
          preview_rows, calls, selected, idx, filtered, reason, wrote,
          inserted, table_rows, table_columns, status_var, progress,
          results_csv, dialog>>

-----------------------------------------------------------------------------
(* Bounds of the explored inputs *)

MaxLen == 4        \* longest response enumerated character by character
MaxRows == 7       \* most lines in a response built from TableLines
MaxFence == 3      \* most lines in a response built from FenceLines

-----------------------------------------------------------------------------
(* Characters *)

QUOTE == "\""
COMMA == ","
NL == "\n"
SPACE == " "
BACKTICK == "BT"     \* the fence character U+0060, which no TLA+ string can hold
EOL == "EOL"

Alphabet == {"a", COMMA, QUOTE, SPACE, BACKTICK, NL}

Whitespace == {SPACE, NL}

Req == {1, 2}

Min(a, b) == IF a < b THEN a ELSE b

Range(s) == {s[k] : k \in 1..Len(s)}

-----------------------------------------------------------------------------
(* str.strip, str.splitlines, str.startswith *)

RECURSIVE lstrip(_)
lstrip(s) == IF s # <<>> /\ Head(s) \in Whitespace THEN lstrip(Tail(s)) ELSE s

RECURSIVE rstrip(_)
rstrip(s) ==
    IF s # <<>> /\ s[Len(s)] \in Whitespace
    THEN rstrip(SubSeq(s, 1, Len(s) - 1))
    ELSE s

strip(s) == rstrip(lstrip(s))

\* every line boundary ends the current line; a non-empty rest is the last line
RECURSIVE splitlinesFrom(_, _, _)
splitlinesFrom(s, cur, out) ==
    IF s = <<>> THEN (IF cur = <<>> THEN out ELSE Append(out, cur))
    ELSE IF Head(s) = NL THEN splitlinesFrom(Tail(s), <<>>, Append(out, cur))
    ELSE splitlinesFrom(Tail(s), Append(cur, Head(s)), out)

splitlines(s) == splitlinesFrom(s, <<>>, <<>>)

Fence == <<BACKTICK, BACKTICK, BACKTICK>>

startswith(s, prefix) ==
    Len(s) >= Len(prefix) /\ SubSeq(s, 1, Len(prefix)) = prefix

-----------------------------------------------------------------------------
(* parse_csv, first half: the loop that keeps the usable lines *)

SkipLineNoFence(line) == line = <<>>

SkipLine(line) == line = <<>> \/ startswith(line, Fence)

RECURSIVE NormalizeFrom(_, _)
NormalizeFrom(ls, out) ==
    IF ls = <<>> THEN out
    ELSE LET line == strip(Head(ls)) IN
         IF SkipLine(line) THEN NormalizeFrom(Tail(ls), out)
         ELSE NormalizeFrom(Tail(ls), Append(out, line))

Normalize(csv_text) == NormalizeFrom(splitlines(csv_text), <<>>)

-----------------------------------------------------------------------------
(* csv.reader with the default dialect: comma delimiter, double-quote      *)
(* quotechar, doublequote, no escapechar, not strict.  The lines hold      *)
(* no line terminator, so the EAT_CRNL state of the reader is not entered. *)

ResetState == [state |-> "START_RECORD", field |-> <<>>, fields |-> <<>>]

SaveField(st) == [st EXCEPT !.fields = Append(st.fields, st.field), !.field = <<>>]

AddChar(st, c) == [st EXCEPT !.field = Append(st.field, c)]

ProcessChar(st, c) ==
    CASE st.state = "START_RECORD" /\ c = EOL -> st
      [] st.state \in {"START_RECORD", "START_FIELD"} /\ c # EOL ->
            IF c = QUOTE THEN [st EXCEPT !.state = "IN_QUOTED_FIELD"]
            ELSE IF c = COMMA THEN [SaveField(st) EXCEPT !.state = "START_FIELD"]
            ELSE [AddChar(st, c) EXCEPT !.state = "IN_FIELD"]
      [] st.state = "START_FIELD" /\ c = EOL ->
            [SaveField(st) EXCEPT !.state = "START_RECORD"]
      [] st.state = "IN_FIELD" ->
            IF c = EOL THEN [SaveField(st) EXCEPT !.state = "START_RECORD"]
            ELSE IF c = COMMA THEN [SaveField(st) EXCEPT !.state = "START_FIELD"]
            ELSE AddChar(st, c)
      [] st.state = "IN_QUOTED_FIELD" ->
            IF c = EOL THEN st
            ELSE IF c = QUOTE THEN [st EXCEPT !.state = "QUOTE_IN_QUOTED_FIELD"]
            ELSE AddChar(st, c)
      [] st.state = "QUOTE_IN_QUOTED_FIELD" ->
            IF c = QUOTE THEN [AddChar(st, c) EXCEPT !.state = "IN_QUOTED_FIELD"]
            ELSE IF c = COMMA THEN [SaveField(st) EXCEPT !.state = "START_FIELD"]
            ELSE IF c = EOL THEN [SaveField(st) EXCEPT !.state = "START_RECORD"]
            ELSE [AddChar(st, c) EXCEPT !.state = "IN_FIELD"]

RECURSIVE ProcessLine(_, _)
ProcessLine(st, line) ==
    IF line = <<>> THEN ProcessChar(st, EOL)
    ELSE ProcessLine(ProcessChar(st, Head(line)), Tail(line))

\* Reader.__next__: one record starting at line i, or StopIteration
RECURSIVE ReaderNext(_, _, _)
ReaderNext(input, i, st) ==
    IF i > Len(input)
    THEN IF st.field # <<>> \/ st.state = "IN_QUOTED_FIELD"
         THEN [stop |-> FALSE, fields |-> SaveField(st).fields, next |-> i,
               open |-> st.state = "IN_QUOTED_FIELD"]
         ELSE [stop |-> TRUE, fields |-> <<>>, next |-> i, open |-> FALSE]
    ELSE LET st2 == ProcessLine(st, input[i]) IN
         IF st2.state # "START_RECORD"
         THEN ReaderNext(input, i + 1, st2)
         ELSE [stop |-> FALSE, fields |-> st2.fields, next |-> i + 1,
               open |-> FALSE]

RECURSIVE ReaderFrom(_, _, _)
ReaderFrom(input, i, out) ==
    LET rec == ReaderNext(input, i, ResetState) IN
    IF rec.stop THEN out
    ELSE ReaderFrom(input, rec.next, Append(out, rec.fields))

csv_reader(input) == ReaderFrom(input, 1, <<>>)

\* the reader met the end of its input while inside a quoted field
RECURSIVE ReaderOpenFrom(_, _)
ReaderOpenFrom(input, i) ==
    LET rec == ReaderNext(input, i, ResetState) IN
    IF rec.stop THEN FALSE
    ELSE rec.open \/ ReaderOpenFrom(input, rec.next)

ReaderEndsInQuotedField(input) == ReaderOpenFrom(input, 1)

\* any(cell.strip() for cell in row)
AnyCell(row) == \E k \in 1..Len(row) : strip(row[k]) # <<>>

RECURSIVE SelectRows(_, _)
SelectRows(rs, out) ==
    IF rs = <<>> THEN out
    ELSE IF AnyCell(Head(rs)) THEN SelectRows(Tail(rs), Append(out, Head(rs)))
    ELSE SelectRows(Tail(rs), out)

Decode(ls) == SelectRows(csv_reader(ls), <<>>)

parse_csv(csv_text) == Decode(Normalize(csv_text))

-----------------------------------------------------------------------------
(* run_extraction: the pure steps *)

IndexError == <<"IndexError">>

\* row[i] of a Python list, i counted from 0
PyItem(row, i) == IF i < Len(row) THEN row[i + 1] ELSE IndexError

RowsOk(rs) == rs # <<>>

PreviewStop == 6

PreviewSliceShort(rs) == SubSeq(rs, 2, Min(PreviewStop - 1, Len(rs)))

\* rows[1:6]
PreviewSlice(rs) == SubSeq(rs, 2, Min(PreviewStop, Len(rs)))

\* choose_headers: the headers whose box is ticked when the dialog closes
RECURSIVE TickedFrom(_, _, _, _)
TickedFrom(hs, ticks, k, out) ==
    IF k > Len(hs) THEN out
    ELSE TickedFrom(hs, ticks, k + 1,
                    IF ticks[k] THEN Append(out, hs[k]) ELSE out)

choose_headers(hs, ticks) == TickedFrom(hs, ticks, 1, <<>>)

SelectedOkAlways(sel) == TRUE

SelectedOk(sel) == sel # <<>>

\* [i for i, h in enumerate(headers) if h in selected]
RECURSIVE IndicesFrom(_, _, _, _)
IndicesFrom(hs, sel, i, out) ==
    IF i >= Len(hs) THEN out
    ELSE IndicesFrom(hs, sel, i + 1,
                     IF hs[i + 1] \in Range(sel) THEN Append(out, i) ELSE out)

RECURSIVE IndicesReversedFrom(_, _, _, _)
IndicesReversedFrom(hs, sel, i, out) ==
    IF i >= Len(hs) THEN out
    ELSE IndicesReversedFrom(hs, sel, i + 1,
                     IF hs[i + 1] \in Range(sel) THEN <<i>> \o out ELSE out)

ColumnIndicesReversed(hs, sel) == IndicesReversedFrom(hs, sel, 0, <<>>)

ColumnIndices(hs, sel) == IndicesFrom(hs, sel, 0, <<>>)

CellAtOffByOne(row, i) == IF i <= Len(row) THEN PyItem(row, i) ELSE <<>>

\* row[i] if i < len(row) else ""
CellAt(row, i) == IF i < Len(row) THEN PyItem(row, i) ELSE <<>>

ProjectRowDropLast(row, ix) ==
    [k \in 1..(Len(ix) - 1) |-> CellAt(row, ix[k])]

ProjectRow(row, ix) == [k \in 1..Len(ix) |-> CellAt(row, ix[k])]

Project(rs, ix) == [j \in 1..Len(rs) |-> ProjectRow(rs[j], ix)]

RaisesIndexError(t) ==
    \E j \in 1..Len(t) : \E k \in 1..Len(t[j]) : t[j][k] = IndexError

-----------------------------------------------------------------------------
(* The responses explored *)

RECURSIVE Join(_)
Join(ls) ==
    IF ls = <<>> THEN <<>>
    ELSE IF Len(ls) = 1 THEN ls[1]
    ELSE ls[1] \o <<NL>> \o Join(Tail(ls))

SeqsUpTo(S, lo, hi) == UNION {[1..n -> S] : n \in lo..hi}

CharTexts == SeqsUpTo(Alphabet, 0, MaxLen)

TableLines == {<<"a", COMMA, "b">>, <<"c">>}

TableTexts == {Join(ls) : ls \in SeqsUpTo(TableLines, 1, MaxRows)}

FenceLines == {Fence, <<SPACE>> \o Fence \o <<"a">>, <<>>, <<SPACE>>, <<"a">>}

FenceTexts == {Join(ls) : ls \in SeqsUpTo(FenceLines, 1, MaxFence)}

Inputs == CharTexts \cup TableTexts \cup FenceTexts

ConcInputs == {<<"a", NL, "b">>, <<"c", COMMA, "d", NL, "e">>, Fence}

-----------------------------------------------------------------------------
(* Initial states *)

NoLocals ==
    /\ pc = [r \in Req |-> "Idle"]
    /\ csv_raw = [r \in Req |-> <<>>]
    /\ lines = [r \in Req |-> <<>>]
    /\ quoteOpen = [r \in Req |-> FALSE]
    /\ rows = [r \in Req |-> <<>>]
    /\ headers = [r \in Req |-> <<>>]
    /\ preview_rows = [r \in Req |-> <<>>]
    /\ calls = [r \in Req |-> 0]
    /\ selected = [r \in Req |-> <<>>]
    /\ idx = [r \in Req |-> <<>>]
    /\ filtered = [r \in Req |-> <<>>]
    /\ reason = [r \in Req |-> ""]
    /\ wrote = [r \in Req |-> FALSE]
    /\ inserted = [r \in Req |-> 0]

\* ExtractorApp.__init__ / _build_ui
FreshApp ==
    /\ table_rows = <<>>
    /\ table_columns = <<>>
    /\ status_var = ""
    /\ progress = FALSE
    /\ results_csv = <<>>
    /\ dialog = ""

\* one Extract click
Init ==
    /\ response \in {[r \in Req |-> IF r = 1 THEN t ELSE <<>>] : t \in Inputs}
    /\ clicks = 1
    /\ NoLocals
    /\ FreshApp

\* two Extract clicks, the second possibly while the first run is under way
InitConc ==
    /\ response \in [Req -> ConcInputs]
    /\ clicks = 2
    /\ NoLocals
    /\ FreshApp

-----------------------------------------------------------------------------
(* ExtractorApp._on_extract, on the main thread *)

appVars == <<table_rows, table_columns, status_var, progress, results_csv, dialog>>

localVars == <<csv_raw, lines, quoteOpen, rows, headers, preview_rows, calls,
               selected, idx, filtered, reason, wrote, inserted>>

NextIdle == CHOOSE r \in Req : pc[r] = "Idle" /\ \A q \in Req : pc[q] = "Idle" => r <= q

OnExtractNoImage ==
    /\ clicks > 0
    /\ clicks' = clicks - 1
    /\ dialog' = "No image"
    /\ UNCHANGED <<response, pc, localVars, table_rows, table_columns,
                   status_var, progress, results_csv>>

OnExtract ==
    /\ clicks > 0
    /\ \E r \in Req : pc[r] = "Idle"
    /\ clicks' = clicks - 1
    /\ table_rows' = <<>>
    /\ status_var' = "Starting extraction"
    /\ progress' = TRUE
    /\ pc' = [pc EXCEPT ![NextIdle] = "Started"]
    /\ UNCHANGED <<response, localVars, table_columns, results_csv, dialog>>

-----------------------------------------------------------------------------
(* run_extraction, on a worker thread, one step at a time *)

Raise(r, why) ==
    /\ pc' = [pc EXCEPT ![r] = "Raised"]
    /\ reason' = [reason EXCEPT ![r] = why]

\* with open(img_path, "rb") as f: bytes_ = f.read()
ReadImage(r) ==
    /\ pc[r] = "Started"
    /\ \E ok \in BOOLEAN :
         IF ok THEN pc' = [pc EXCEPT ![r] = "ImageRead"] /\ UNCHANGED reason
         ELSE Raise(r, "OSError")
    /\ UNCHANGED <<response, clicks, csv_raw, lines, quoteOpen, rows, headers,
                   preview_rows, calls, selected, idx, filtered, wrote,
                   inserted, appVars>>

\* csv_raw = send_to_openai(bytes_)
SendToOpenAI(r) ==
    /\ pc[r] = "ImageRead"
    /\ \E ok \in BOOLEAN :
         IF ok
         THEN /\ csv_raw' = [csv_raw EXCEPT ![r] = strip(response[r])]
              /\ pc' = [pc EXCEPT ![r] = "Received"]
              /\ UNCHANGED reason
         ELSE Raise(r, "APIError") /\ UNCHANGED csv_raw
    /\ UNCHANGED <<response, clicks, lines, quoteOpen, rows, headers,
                   preview_rows, calls, selected, idx, filtered, wrote,
                   inserted, appVars>>

\* parse_csv, the loop over csv_text.splitlines()
NormalizeStep(r) ==
    /\ pc[r] = "Received"
    /\ lines' = [lines EXCEPT ![r] = Normalize(csv_raw[r])]
    /\ pc' = [pc EXCEPT ![r] = "Normalized"]
    /\ UNCHANGED <<response, clicks, csv_raw, quoteOpen, rows, headers,
                   preview_rows, calls, selected, idx, filtered, reason,
                   wrote, inserted, appVars>>

\* parse_csv, the csv.reader comprehension, and the check of its result
DecodeStep(r) ==
    /\ pc[r] = "Normalized"
    /\ rows' = [rows EXCEPT ![r] = Decode(lines[r])]
    /\ quoteOpen' = [quoteOpen EXCEPT ![r] = ReaderEndsInQuotedField(lines[r])]
    /\ IF RowsOk(rows'[r])
       THEN pc' = [pc EXCEPT ![r] = "Decoded"] /\ UNCHANGED reason
       ELSE Raise(r, "No rows parsed")
    /\ UNCHANGED <<response, clicks, csv_raw, lines, headers, preview_rows,
                   calls, selected, idx, filtered, wrote, inserted, appVars>>

\* headers, preview_rows, choose_headers(...) and the check of its result
SelectHeaders(r) ==
    /\ pc[r] = "Decoded"
    /\ IF PyItem(rows[r], 0) = IndexError
       THEN /\ Raise(r, "IndexError")
            /\ UNCHANGED <<headers, preview_rows, calls, selected>>
       ELSE /\ headers' = [headers EXCEPT ![r] = PyItem(rows[r], 0)]
            /\ preview_rows' = [preview_rows EXCEPT ![r] = PreviewSlice(rows[r])]
            /\ calls' = [calls EXCEPT ![r] = @ + 1]
            /\ \E ticks \in [1..Len(headers'[r]) -> BOOLEAN] :
                 selected' = [selected EXCEPT ![r] = choose_headers(headers'[r], ticks)]
            /\ IF SelectedOk(selected'[r])
               THEN pc' = [pc EXCEPT ![r] = "HeadersSelected"] /\ UNCHANGED reason
               ELSE Raise(r, "No columns selected")
    /\ UNCHANGED <<response, clicks, csv_raw, lines, quoteOpen, rows, idx,
                   filtered, wrote, inserted, appVars>>

\* idx = [...] ; filtered = [...]
ProjectStep(r) ==
    /\ pc[r] = "HeadersSelected"
    /\ idx' = [idx EXCEPT ![r] = ColumnIndices(headers[r], selected[r])]
    /\ LET f == Project(rows[r], idx'[r]) IN
         IF RaisesIndexError(f)
         THEN Raise(r, "IndexError") /\ UNCHANGED filtered
         ELSE /\ filtered' = [filtered EXCEPT ![r] = f]
              /\ pc' = [pc EXCEPT ![r] = "Projected"]
              /\ UNCHANGED reason
    /\ UNCHANGED <<response, clicks, csv_raw, lines, quoteOpen, rows, headers,
                   preview_rows, calls, selected, wrote, inserted, appVars>>

\* save_and_copy: open() may fail; clipboard and startfile errors are swallowed
SaveAndCopy(r) ==
    /\ pc[r] = "Projected"
    /\ \E ok \in BOOLEAN :
         IF ok
         THEN /\ results_csv' = filtered[r]
              /\ wrote' = [wrote EXCEPT ![r] = TRUE]
              /\ pc' = [pc EXCEPT ![r] = "Saved"]
              /\ UNCHANGED reason
         ELSE Raise(r, "OSError") /\ UNCHANGED <<results_csv, wrote>>
    /\ UNCHANGED <<response, clicks, csv_raw, lines, quoteOpen, rows, headers,
                   preview_rows, calls, selected, idx, filtered, inserted,
                   table_rows, table_columns, status_var, progress, dialog>>

\* app.table.config(columns=selected) and the heading/column loop;
\* a Tk call made from the worker thread may raise
ConfigTable(r) ==
    /\ pc[r] = "Saved"
    /\ \E ok \in BOOLEAN :
         IF ok
         THEN /\ table_columns' = selected[r]
              /\ pc' = [pc EXCEPT ![r] = "TableConfigured"]
              /\ UNCHANGED reason
         ELSE Raise(r, "TclError") /\ UNCHANGED table_columns
    /\ UNCHANGED <<response, clicks, csv_raw, lines, quoteOpen, rows, headers,
                   preview_rows, calls, selected, idx, filtered, wrote,
                   inserted, table_rows, status_var, progress, results_csv,
                   dialog>>

\* one turn of: for r in filtered[1:]: app.table.insert("", "end", values=r)
InsertRow(r) ==
    /\ pc[r] = "TableConfigured"
    /\ inserted[r] < Len(filtered[r]) - 1
    /\ \E ok \in BOOLEAN :
         IF ok
         THEN /\ table_rows' = Append(table_rows, filtered[r][inserted[r] + 2])
              /\ inserted' = [inserted EXCEPT ![r] = @ + 1]
              /\ UNCHANGED <<pc, reason>>
         ELSE Raise(r, "TclError") /\ UNCHANGED <<table_rows, inserted>>
    /\ UNCHANGED <<response, clicks, csv_raw, lines, quoteOpen, rows, headers,
                   preview_rows, calls, selected, idx, filtered, wrote,
                   table_columns, status_var, progress, results_csv, dialog>>

\* app.set_status(f"Done - saved to {save_path}")
SetStatusDone(r) ==
    /\ pc[r] = "TableConfigured"
    /\ inserted[r] = Len(filtered[r]) - 1
    /\ status_var' = "Done"
    /\ pc' = [pc EXCEPT ![r] = "StatusDone"]
    /\ UNCHANGED <<response, clicks, localVars, table_rows, table_columns,
                   progress, results_csv, dialog>>

\* except Exception as e: set_status, showerror
Except(r) ==
    /\ pc[r] = "Raised"
    /\ status_var' = "Error"
    /\ dialog' = "Extraction failed"
    /\ pc' = [pc EXCEPT ![r] = "Handled"]
    /\ UNCHANGED <<response, clicks, localVars, table_rows, table_columns,
                   progress, results_csv>>

\* finally: app.progress.stop(); app.progress.place_forget()
Finally(r) ==
    /\ pc[r] \in {"StatusDone", "Handled"}
    /\ progress' = FALSE
    /\ pc' = [pc EXCEPT ![r] = IF pc[r] = "StatusDone" THEN "Done" ELSE "Failed"]
    /\ UNCHANGED <<response, clicks, localVars, table_rows, table_columns,
                   status_var, results_csv, dialog>>

Next ==
    \/ OnExtractNoImage
    \/ OnExtract
    \/ \E r \in Req : ReadImage(r)
    \/ \E r \in Req : SendToOpenAI(r)
    \/ \E r \in Req : NormalizeStep(r)
    \/ \E r \in Req : DecodeStep(r)
    \/ \E r \in Req : SelectHeaders(r)
    \/ \E r \in Req : ProjectStep(r)
    \/ \E r \in Req : SaveAndCopy(r)
    \/ \E r \in Req : ConfigTable(r)
    \/ \E r \in Req : InsertRow(r)
    \/ \E r \in Req : SetStatusDone(r)
    \/ \E r \in Req : Except(r)
    \/ \E r \in Req : Finally(r)

Spec == Init /\ [][Next]_vars

SpecConc == InitConc /\ [][Next]_vars

-----------------------------------------------------------------------------
(* Vocabulary of the properties *)

FailurePcs == {"Raised", "Handled", "Failed"}

\* the run of request r has computed its projected table
HasProjected(r) == filtered[r] # <<>>

\* the selection names every header of the table
FullSelection(r) == Range(selected[r]) = Range(headers[r])

\* a row cut or padded with empty cells to n cells
Fit(row, n) == [k \in 1..n |-> IF k <= Len(row) THEN row[k] ELSE <<>>]

\* every non-blank character of t sits on a line whose first non-blank
\* characters are three fence characters
OnlyFenceOrBlank(t) ==
    \A p \in 1..Len(t) :
        t[p] \notin Whitespace =>
            \E q \in 1..p :
                /\ q + 2 <= Len(t)
                /\ \A k \in q..(q + 2) : t[k] = BACKTICK
                /\ \A k \in q..p : t[k] # NL
                /\ \A k \in 1..(q - 1) :
                       (\A m \in k..(q - 1) : t[m] # NL) => t[k] = SPACE

-----------------------------------------------------------------------------
\* C1: the retained column indices are exactly the positions of the header
\* row whose header is a member of the selection, they are strictly
\* increasing, and every output row lists its cells in that index order.
C1_HeaderOrder ==
    \A r \in Req :
        HasProjected(r) =>
            /\ \A k \in 1..(Len(idx[r]) - 1) : idx[r][k] < idx[r][k + 1]
            /\ Range(idx[r]) =
                  {i \in 0..(Len(headers[r]) - 1) :
                      \E m \in 1..Len(selected[r]) : selected[r][m] = headers[r][i + 1]}
            /\ \A k \in 1..Len(idx[r]) : filtered[r][1][k] = rows[r][1][idx[r][k] + 1]
            /\ \A j \in 1..Len(filtered[r]) : \A k \in 1..Len(idx[r]) :
                  idx[r][k] < Len(rows[r][j]) =>
                      filtered[r][j][k] = rows[r][j][idx[r][k] + 1]

\* a projection that keeps two or more columns and drops at least one
C1_Witness ==
    \E r \in Req :
        /\ HasProjected(r)
        /\ Len(idx[r]) >= 2
        /\ Len(idx[r]) < Len(headers[r])

\* C2 as stated: projecting with the full header set gives back the table,
\* ragged rows included.
C2_RoundTrip ==
    \A r \in Req :
        (HasProjected(r) /\ FullSelection(r)) => filtered[r] = rows[r]

\* C2 amended: with the full header set selected, a row with as many cells
\* as the header row comes back unchanged, a shorter row comes back padded
\* with empty cells to the header length, a longer row comes back cut to it.
C2_RoundTripFit ==
    \A r \in Req :
        (HasProjected(r) /\ FullSelection(r)) =>
            /\ Len(filtered[r]) = Len(rows[r])
            /\ \A j \in 1..Len(rows[r]) :
                  /\ filtered[r][j] = Fit(rows[r][j], Len(headers[r]))
                  /\ Len(rows[r][j]) = Len(headers[r]) => filtered[r][j] = rows[r][j]
                  /\ Len(rows[r][j]) > Len(headers[r]) =>
                        filtered[r][j] = SubSeq(rows[r][j], 1, Len(headers[r]))

\* a full-selection projection of a table with a full-width data row and a
\* ragged one
C2_Witness ==
    \E r \in Req :
        /\ HasProjected(r)
        /\ FullSelection(r)
        /\ \E j \in 2..Len(rows[r]) : Len(rows[r][j]) = Len(headers[r])
        /\ \E j \in 2..Len(rows[r]) : Len(rows[r][j]) # Len(headers[r])

\* C3: when the normalized text leaves a quoted field open, decoding ends
\* in a failure (spec: MalformedCsv); no table is returned, truncated or
\* with lines merged into one cell, and header selection is never reached.
\* The name of the failure is left open here: the code has a single
\* exception path, and the property fails on the returned table alone.
C3_UnbalancedQuoteFails ==
    \A r \in Req :
        quoteOpen[r] =>
            /\ pc[r] \in FailurePcs
            /\ rows[r] = <<>>
            /\ calls[r] = 0

\* C4: a response made only of fence lines and blank lines normalizes to no
\* lines, decodes to an empty table, and the run fails with the empty-table
\* reason before the column selector or the sink is used.
C4_FenceOnlyFails ==
    \A r \in Req :
        OnlyFenceOrBlank(response[r]) =>
            /\ lines[r] = <<>>
            /\ rows[r] = <<>>
            /\ calls[r] = 0
            /\ ~wrote[r]
            /\ inserted[r] = 0
            /\ pc[r] \in {"Idle", "Started", "ImageRead", "Received", "Normalized"}
                         \cup FailurePcs
            /\ pc[r] \in FailurePcs =>
                  reason[r] \in {"OSError", "APIError", "No rows parsed"}

\* a failed run whose response held fence lines around a blank line
C4_Witness ==
    \E r \in Req :
        /\ OnlyFenceOrBlank(response[r])
        /\ \E k \in 1..(Len(response[r]) - 1) :
              response[r][k] = NL /\ response[r][k + 1] = NL
        /\ \E k \in 1..Len(response[r]) : response[r][k] = BACKTICK
        /\ pc[r] = "Failed"
        /\ reason[r] = "No rows parsed"

\* C5: a run that ends in the failure branch has not written results.csv
\* and has inserted no row into the table view, whichever step raised.
C5_NoOutputOnFailure ==
    \A r \in Req :
        pc[r] \in {"Handled", "Failed"} => (~wrote[r] /\ inserted[r] = 0)

-----------------------------------------------------------------------------
StageOrder ==
    <<"Idle", "Started", "ImageRead", "Received", "Normalized", "Decoded",
      "HeadersSelected", "Projected", "Saved", "TableConfigured",
      "StatusDone", "Done">>

StageStep(a, b) ==
    \/ \E k \in 1..(Len(StageOrder) - 1) : a = StageOrder[k] /\ b = StageOrder[k + 1]
    \/ a \in {"Started", "ImageRead", "Normalized", "Decoded", "HeadersSelected",
              "Projected", "Saved", "TableConfigured"} /\ b = "Raised"
    \/ a = "Raised" /\ b = "Handled"
    \/ a = "Handled" /\ b = "Failed"

StageGuards ==
    \A r \in Req :
        /\ calls[r] > 0 => rows[r] # <<>>
        /\ pc[r] \in {"HeadersSelected", "Projected", "Saved", "TableConfigured",
                      "StatusDone", "Done"} => selected[r] # <<>>
        /\ (HasProjected(r) \/ wrote[r] \/ inserted[r] > 0) => selected[r] # <<>>
        /\ (calls[r] > 0 /\ selected[r] = <<>>) =>
              (pc[r] \in FailurePcs /\ reason[r] = "No columns selected")

StageMoves ==
    \A r \in Req :
        /\ pc'[r] # pc[r] => StageStep(pc[r], pc'[r])
        /\ pc[r] \in FailurePcs =>
              /\ pc'[r] \in FailurePcs
              /\ csv_raw'[r] = csv_raw[r] /\ lines'[r] = lines[r]
              /\ rows'[r] = rows[r] /\ calls'[r] = calls[r]
              /\ selected'[r] = selected[r] /\ idx'[r] = idx[r]
              /\ filtered'[r] = filtered[r] /\ wrote'[r] = wrote[r]
              /\ inserted'[r] = inserted[r]

\* C6: each run moves through Received, Normalized, Decoded,
\* HeadersSelected, Projected, Done in that order without repeating a stage;
\* the selector runs only on a non-empty table; projection and persistence
\* happen only after a non-empty selection, an empty one fails with the
\* no-columns reason; after the failure no later stage executes.
C6_LinearStages == [](StageGuards) /\ [][StageMoves]_vars

\* a run that went through every stage
C6_Witness == \E r \in Req : pc[r] = "Done" /\ Len(filtered[r]) >= 2

\* C7: with two extractions under way, each one leaves the table view,
\* results.csv, the status and the progress indicator as it would have
\* left them running alone.
C7_Isolated ==
    \A r \in Req :
        pc[r] = "StatusDone" =>
            /\ table_rows = Tail(filtered[r])
            /\ results_csv = filtered[r]
            /\ table_columns = selected[r]
            /\ status_var = "Done"
            /\ progress

\* C8: every projected cell is the cell of the row at the retained index
\* when the row is that long and the empty string otherwise; projection
\* never fails, and every projected row has one cell per retained index.
C8_PaddedCells ==
    \A r \in Req :
        /\ reason[r] # "IndexError"
        /\ HasProjected(r) =>
              /\ Len(filtered[r]) = Len(rows[r])
              /\ \A j \in 1..Len(rows[r]) :
                    /\ Len(filtered[r][j]) = Len(idx[r])
                    /\ \A k \in 1..Len(idx[r]) :
                          filtered[r][j][k] =
                              IF idx[r][k] < Len(rows[r][j])
                              THEN rows[r][j][idx[r][k] + 1]
                              ELSE <<>>

\* a projected table with a row too short for a retained column
C8_Witness ==
    \E r \in Req :
        /\ HasProjected(r)
        /\ \E j \in 1..Len(rows[r]) : \E k \in 1..Len(idx[r]) :
              idx[r][k] >= Len(rows[r][j]) /\ filtered[r][j][k] = <<>>

\* C9: every cell of the decoded table has no leading or trailing
\* whitespace, and every row has a non-blank cell.
C9_TrimmedCells ==
    \A r \in Req : \A j \in 1..Len(rows[r]) :
        /\ AnyCell(rows[r][j])
        /\ \A k \in 1..Len(rows[r][j]) :
              rows[r][j][k] = <<>> \/
                  (rows[r][j][k][1] \notin Whitespace
                   /\ rows[r][j][k][Len(rows[r][j][k])] \notin Whitespace)

\* C10: the column selector is invoked exactly once per successful decode,
\* with the first row as headers and, as preview, the min(5, rows - 1) rows
\* that follow the header, in order.
C10_SelectorCall ==
    \A r \in Req :
        /\ rows[r] = <<>> => calls[r] = 0
        /\ pc[r] = "Decoded" => calls[r] = 0
        /\ (rows[r] # <<>> /\ pc[r] # "Decoded") => calls[r] = 1
        /\ calls[r] = 1 =>
              /\ headers[r] = rows[r][1]
              /\ Len(preview_rows[r]) = Min(5, Len(rows[r]) - 1)
              /\ \A k \in 1..Len(preview_rows[r]) : preview_rows[r][k] = rows[r][k + 1]

\* the selector was shown a table with more data rows than the preview holds
C10_Witness ==
    \E r \in Req :
        /\ calls[r] = 1
        /\ Len(rows[r]) > 6
        /\ Len(preview_rows[r]) = 5

====
